---- MODULE Spec2Model ----
(***************************************************************************)
(* A model of the cache-backed playlist iterator of src/src/lib.rs:        *)
(* CachingSpotify::playlist_tracks (the "fetch" of the specification) and  *)
(* the Iterator implementation PlaylistTracks::next (a "pull"), over the   *)
(* two sled trees "playlist_length" and "playlist_tracks" and the remote   *)
(* paging call Spotify::user_playlist_tracks.                              *)
(*                                                                         *)
(* The page size and the collection size are scaled down; the byte level   *)
(* of keys, lengths and serialized tracks is kept.                         *)
(***************************************************************************)
EXTENDS Integers, Sequences, FiniteSets, TLC

\* Page size of every remote request (20 in the source, scaled for checking).
SEARCH_LIMIT == 2

\* Largest number of tracks the remote playlist can have.
MaxTotal == 3

\* Largest number of tracks of the playlist of an observed first traversal.
MaxLong == 12

----------------------------------------------------------------------------
(* Values *)

\* The bytes of the playlist id (the model follows one playlist).
PlaylistId == <<112, 49>>

\* A PlaylistTrack: the track at position idx of the playlist.
Track(i) == [idx |-> i]

NoTrack == Track(-1)

\* Option<T>
None == [some |-> FALSE, val |-> <<>>]
Some(v) == [some |-> TRUE, val |-> v]

Min(a, b) == IF a < b THEN a ELSE b

----------------------------------------------------------------------------
(* Byte encodings *)

\* u32::to_be_bytes
to_be_bytes(n) ==
    << (n \div 16777216) % 256, (n \div 65536) % 256, (n \div 256) % 256, n % 256 >>

\* u32::from_be_bytes on a 4-byte array
from_be_bytes(b) == b[1] * 16777216 + b[2] * 65536 + b[3] * 256 + b[4]

\* ivec.as_ref().try_into() to [u8; 4], then from_be_bytes: the decoded
\* cached length, None when the stored value is not 4 bytes long.
decode_length(ivec) ==
    IF Len(ivec) = 4 THEN Some(from_be_bytes(ivec)) ELSE None

\* serde_cbor::to_writer of a track: a tagged, self-describing byte string.
to_writer(track) == <<161, track.idx>>

\* serde_cbor::from_reader: the track, or None when the bytes do not parse.
from_reader(bytes) ==
    IF Len(bytes) = 2 /\ bytes[1] = 161
    THEN Some(Track(bytes[2]))
    ELSE None

\* Bytes that are no serialized track (a damaged entry).
Junk == <<255>>

\* Bytes that are no 4-byte length (a damaged entry).
JunkLength == <<255>>

\* The initial value of the iterator's key buffer: id bytes and four zeros.
new_key == PlaylistId \o <<0, 0, 0, 0>>

\* lines 190-191, key[len - 4..].copy_from_slice(&bytes): the key with its
\* last four bytes overwritten.
copy_from_slice(key, bytes) == SubSeq(key, 1, Len(key) - 4) \o bytes

\* PlaylistTracks::update_key: overwrite the last four bytes of the key.
update_key(key, offset) == copy_from_slice(key, to_be_bytes(offset))

\* A u32 of the whole 32-bit range, as its two 16-bit halves (TLC's
\* integers end at 2^31 - 1).
U32(hi, lo) == [hi |-> hi, lo |-> lo]

\* to_be_bytes_u32 with the bytes in little-endian order.
to_le_bytes_u32(w) ==
    << w.lo % 256, w.lo \div 256, w.hi % 256, w.hi \div 256 >>

\* u32::to_be_bytes on the halves of the number.
to_be_bytes_u32(w) ==
    << w.hi \div 256, w.hi % 256, w.lo \div 256, w.lo % 256 >>

\* The order of the keys of a sled tree: byte-lexicographic.
lex_less(a, b) ==
    \E k \in 1..Len(b) :
       /\ k <= Len(a) + 1
       /\ \A n \in 1..(k - 1) : a[n] = b[n]
       /\ k = Len(a) + 1 \/ a[k] < b[k]

----------------------------------------------------------------------------
(* The store: a sled tree is a partial function from keys to values *)

EmptyTree == << >>

tree_get(tree, key) ==
    IF key \in DOMAIN tree THEN Some(tree[key]) ELSE None

tree_insert(tree, key, value) ==
    [k \in (DOMAIN tree) \cup {key} |-> IF k = key THEN value ELSE tree[k]]

----------------------------------------------------------------------------
(* The remote page source *)

\* A remote request: Some(limit) and Some(playlist_offset) of the call.
Request(offset) == [offset |-> offset, limit |-> SEARCH_LIMIT]

\* Spotify::user_playlist_tracks answering a request correctly for the
\* playlist coll: the tracks from offset on, at most limit of them, and the
\* playlist's total.
user_playlist_tracks(coll, req) ==
    LET n == IF req.offset >= coll.total
             THEN 0
             ELSE Min(req.limit, coll.total - req.offset)
    IN [items |-> [k \in 1..n |-> Track(req.offset + k - 1)],
        total |-> coll.total]

----------------------------------------------------------------------------
(* State *)

VARIABLES
    collection,  \* the remote playlist: [total]
    lengths,     \* sled tree "playlist_length": playlist id -> bytes
    tracks,      \* sled tree "playlist_tracks": composite key -> bytes
    it,          \* the PlaylistTracks the consumer holds (live = FALSE: none)
    ret,         \* what the last call did: its result and its remote requests
    trav,        \* the traversal of `it` so far: yields and remote use
    completed,   \* a traversal of the playlist, as it is now, has ended
    log,         \* the remote requests and the yields of an observed traversal
    keys,        \* a key buffer on its own: the last two keys built in it
    race         \* two more iterators over the playlist, pulled step by step

\* The variables the calls on the consumer's iterator leave alone.
aside == <<keys, race>>

vars ==
    <<collection, lengths, tracks, it, ret, trav, completed, log, keys, race>>

\* struct PlaylistTracks (spotify, playlist_id and tree are fixed references)
PlaylistTracks(total, buffer) ==
    [live |-> TRUE, total |-> total, offset |-> 0, key |-> new_key,
     buffer |-> buffer]

NoIterator ==
    [live |-> FALSE, total |-> 0, offset |-> 0, key |-> new_key,
     buffer |-> <<>>]

\* The record of a call: op is "fetch" or "next"; res is "Iter", "Ok",
\* "None" or "Err"; err is the Error variant and the call it came from; calls
\* are the remote requests issued; readErr tells that the store failed on the
\* cache read; saw is what the cache held under the key the call goes by;
\* path is the branch that answered.
Ret(op, force, res, track, err, calls, readErr, saw, path) ==
    [op |-> op, force |-> force, res |-> res, track |-> track, err |-> err,
     calls |-> calls, readErr |-> readErr, saw |-> saw, path |-> path]

\* What a tree holds under a key: "absent", "valid" (the bytes decode) or
\* "corrupt" (they do not).
Holds(entry, decoded) ==
    IF ~entry.some THEN "absent" ELSE IF decoded.some THEN "valid" ELSE "corrupt"

NoRet == Ret("init", FALSE, "-", NoTrack, "-", <<>>, FALSE, "-", "-")

EnvRet == Ret("env", FALSE, "-", NoTrack, "-", <<>>, FALSE, "-", "-")

\* yielded counts the tracks yielded; remote tells that the fetch or a pull
\* issued a remote request; replay tells that the traversal began with
\* force = false after another traversal had ended.
NoTrav == [yielded |-> 0, remote |-> FALSE, replay |-> FALSE]

\* The log of a traversal: the remote requests issued since its fetch, that
\* of the fetch included, and the branch that answered each of its yields.
\* It is kept only when on is set, which no call changes.
NoLog == [on |-> FALSE, requests |-> <<>>, paths |-> <<>>]

Logged(lg, calls, paths) ==
    IF lg.on
    THEN [lg EXCEPT !.requests = lg.requests \o calls,
                    !.paths = lg.paths \o paths]
    ELSE lg

\* The key buffer as lines 141-142 build it: the key of offset 0.
NoKeys ==
    [offset |-> U32(0, 0), key |-> new_key,
     before |-> [offset |-> U32(0, 0), key |-> new_key]]

\* The iterators that share the store.
Iterators == {1, 2}

\* One of them: the PlaylistTracks (it); the point its next() has reached
\* (pc: "idle" between calls, "request" before the remote request of line
\* 219, "insert" in the loop of lines 230-239); next_page.items and the loop
\* index i (page, pos); the tracks its calls have yielded and whether a call
\* has returned None (yields, ended).
Racer(iter) ==
    [it |-> iter, pc |-> "idle", page |-> <<>>, pos |-> 0, yields |-> <<>>,
     ended |-> FALSE]

NoRace == [i \in Iterators |-> Racer(NoIterator)]

Init ==
    /\ keys = NoKeys
    /\ race = NoRace
    /\ collection \in [total : 0..MaxTotal]
    /\ lengths = EmptyTree
    /\ tracks = EmptyTree
    /\ it = NoIterator
    /\ ret = NoRet
    /\ trav = NoTrav
    /\ completed = FALSE
    /\ log = NoLog

\* An empty store and a playlist of up to MaxLong tracks, observed.
InitFirst ==
    /\ keys = NoKeys
    /\ race = NoRace
    /\ collection \in [total : 0..MaxLong]
    /\ lengths = EmptyTree
    /\ tracks = EmptyTree
    /\ it = NoIterator
    /\ ret = NoRet
    /\ trav = NoTrav
    /\ completed = FALSE
    /\ log = [NoLog EXCEPT !.on = TRUE]

----------------------------------------------------------------------------
(* CachingSpotify::playlist_tracks *)

\* The failures the store and the remote source can answer a fetch with: an
\* open_tree (lines 128-129), the length read (line 133), the remote request
\* (line 161), the length write (line 162).
FetchFaults == {"none", "open_tree", "get", "remote", "insert"}

\* cached_total with the test of force inverted: the cache is read only on a
\* forced call.
cached_total_inverted(force, lens) ==
    IF ~force
    THEN None
    ELSE LET got == tree_get(lens, PlaylistId)
         IN IF got.some THEN decode_length(got.val) ELSE None

\* cached_total with the value read from the cache dropped.
cached_total_dropped(force, lens) == None

\* lines 130-140: the cached length the call goes by.
cached_total(force, lens) ==
    IF force
    THEN None
    ELSE LET got == tree_get(lens, PlaylistId)
         IN IF got.some THEN decode_length(got.val) ELSE None

\* lines 144-152: the iterator built from a cached length.
lazy_iterator(total) == PlaylistTracks(total, <<>>)

\* eager_iterator with the first page dropped.
eager_iterator_unbuffered(first_page) == PlaylistTracks(first_page.total, <<>>)

\* lines 163-171: the iterator built from the eagerly fetched first page.
eager_iterator(first_page) == PlaylistTracks(first_page.total, first_page.items)

\* put_length that writes only when the tree holds no length yet.
put_length_if_absent(lens, first_page) ==
    IF PlaylistId \in DOMAIN lens
    THEN lens
    ELSE tree_insert(lens, PlaylistId, to_be_bytes(first_page.total))

\* line 162: the length tree after the call stored the page's total.
put_length(lens, first_page) ==
    tree_insert(lens, PlaylistId, to_be_bytes(first_page.total))

\* length_unwritten with the total stored although the insertion reported a
\* failure.
length_unwritten_stored(lens, first_page) ==
    tree_insert(lens, PlaylistId, to_be_bytes(first_page.total))

\* line 162, `?` taken: the length tree after the insertion of the total
\* failed; the store applied nothing.
length_unwritten(lens, first_page) == lens

\* eager_tracks with the first page inserted into the items tree, each track
\* under the key of its index.
RECURSIVE eager_tracks_cached(_, _, _)
eager_tracks_cached(tree, first_page, count) ==
    IF count = 0
    THEN tree
    ELSE tree_insert(eager_tracks_cached(tree, first_page, count - 1),
                     update_key(new_key, count - 1),
                     to_writer(first_page.items[count]))

\* lines 153-172: the items tree after the eager path took the count tracks
\* of the first page: the call opens the tree (line 129) and hands it to the
\* iterator (line 165) without inserting into it.
eager_tracks(tree, first_page, count) == tree

\* The whole call: [res, err, it, lengths, tracks, calls, readErr].
playlist_tracks(force, fault) ==
    LET total == cached_total(force, lengths)
        request == Request(0)
        first_page == user_playlist_tracks(collection, request)
        Failed(e, lens, calls, rd) ==
            [res |-> "Err", err |-> e, it |-> it, lengths |-> lens,
             tracks |-> tracks, calls |-> calls, readErr |-> rd]
        Returned(iter, lens, tree, calls) ==
            [res |-> "Iter", err |-> "-", it |-> iter, lengths |-> lens,
             tracks |-> tree, calls |-> calls, readErr |-> FALSE]
    IN  IF fault = "open_tree"
        THEN Failed("Sled/open_tree", lengths, <<>>, FALSE)
        ELSE IF ~force /\ fault = "get"
        THEN Failed("Sled/get", lengths, <<>>, TRUE)
        ELSE IF total.some
        THEN Returned(lazy_iterator(total.val), lengths, tracks, <<>>)
        ELSE IF fault = "remote"
        THEN Failed("Failure", lengths, <<request>>, FALSE)
        ELSE IF fault = "insert"
        THEN Failed("Sled/insert", length_unwritten(lengths, first_page),
                    <<request>>, FALSE)
        ELSE Returned(eager_iterator(first_page),
                      put_length(lengths, first_page),
                      eager_tracks(tracks, first_page, Len(first_page.items)),
                      <<request>>)

\* A failure happens at a call the fetch makes: the length is read only
\* without force, the remote request and the length write are made only
\* without a cached length to go by.
fetch_reaches(force, fault) ==
    CASE fault = "get" -> ~force
      [] fault \in {"remote", "insert"} -> ~cached_total(force, lengths).some
      [] OTHER -> TRUE

Fetch(force, fault) ==
    LET entry == tree_get(lengths, PlaylistId)
        decoded == IF entry.some THEN decode_length(entry.val) ELSE None
    IN  \E out \in {playlist_tracks(force, fault)} :
        /\ fetch_reaches(force, fault)
        /\ lengths' = out.lengths
        /\ tracks' = out.tracks
        /\ it' = out.it
        /\ ret' = Ret("fetch", force, out.res, NoTrack, out.err, out.calls,
                      out.readErr,
                      IF decoded.some /\ decoded.val # collection.total
                      THEN "stale" ELSE Holds(entry, decoded),
                      "-")
        /\ trav' = IF out.res = "Iter"
                   THEN [yielded |-> 0, remote |-> out.calls # <<>>,
                         replay |-> completed /\ ~force]
                   ELSE trav
        /\ log' = IF out.res = "Iter"
                  THEN Logged([log EXCEPT !.requests = <<>>, !.paths = <<>>],
                              out.calls, <<>>)
                  ELSE Logged(log, out.calls, <<>>)
        /\ UNCHANGED <<collection, completed, aside>>

----------------------------------------------------------------------------
(* PlaylistTracks::next *)

\* The failures the store and the remote source can answer a pull with: the
\* cache read fails (read); the remote request fails (down = "remote"); the
\* serialization (down = "cbor") or the insertion (down = "insert") of the
\* at-th track of the page fails.
PullFaults ==
    [read : BOOLEAN, down : {"none", "remote"}, at : {0}]
      \cup [read : BOOLEAN, down : {"cbor", "insert"}, at : 1..SEARCH_LIMIT]

NoPullFault == [read |-> FALSE, down |-> "none", at |-> 0]

\* line 199
exhausted(iter) == iter.offset >= iter.total

\* VecDeque::pop_front, the queue that is left
pop_front(buffer) == IF buffer = <<>> THEN <<>> ELSE Tail(buffer)

\* cache_read that never serves an entry: every pull counts as a miss.
cache_read_blind(readfail, entry) == None

\* cache_read that serves a default track for an entry that does not
\* deserialize.
cache_read_lenient(readfail, entry) ==
    IF readfail
    THEN None
    ELSE IF ~entry.some
    THEN None
    ELSE IF from_reader(entry.val).some
    THEN from_reader(entry.val)
    ELSE Some(NoTrack)

\* cache_read that serves a default track when the read fails.
cache_read_default(readfail, entry) ==
    IF readfail
    THEN Some(NoTrack)
    ELSE IF entry.some THEN from_reader(entry.val) ELSE None

\* lines 203-214: the track the cache read serves, None on a miss; a failed
\* read and an entry that does not deserialize are logged and count as a miss.
cache_read(readfail, entry) ==
    IF readfail
    THEN None
    ELSE IF entry.some THEN from_reader(entry.val) ELSE None

\* after_hit with the offset left as it is.
after_hit_stays(iter, key) ==
    [iter EXCEPT !.key = key, !.buffer = pop_front(iter.buffer)]

\* after_hit with the lookahead buffer left as it is.
after_hit_keeps_buffer(iter, key) ==
    [iter EXCEPT !.key = key, !.offset = iter.offset + 1]

\* after_buffer with the front of the buffer left in place.
after_buffer_keeps_front(iter, key) ==
    [iter EXCEPT !.key = key, !.offset = iter.offset + 1]

\* lines 205-209: the iterator after a cache hit.
after_hit(iter, key) ==
    [iter EXCEPT !.key = key, !.buffer = pop_front(iter.buffer),
                 !.offset = iter.offset + 1]

\* lines 215-218: the iterator after a yield from the lookahead buffer.
after_buffer(iter, key) ==
    [iter EXCEPT !.key = key, !.buffer = pop_front(iter.buffer),
                 !.offset = iter.offset + 1]

\* after_upstream_failure with the offset advanced before the request.
after_upstream_failure_advances(iter, key) ==
    [iter EXCEPT !.key = key, !.offset = iter.offset + 1]

\* lines 227-228: the iterator after the remote request failed.
after_upstream_failure(iter, key) == [iter EXCEPT !.key = key]

\* after_write_failure with the page moved into the buffer before the
\* writes.
after_write_failure_buffers(iter, key, items) ==
    [iter EXCEPT !.key = key, !.buffer = items]

\* lines 232-238: the iterator after the serialization or the insertion of
\* a track of the page failed; the page is dropped.
after_write_failure(iter, key, items) == [iter EXCEPT !.key = key]

\* after_page with the whole page taken as consumed: the buffer is dropped
\* and the offset moves past the page.
after_page_skips(iter, key, items) ==
    [iter EXCEPT !.key = key, !.buffer = <<>>,
                 !.offset = iter.offset + Len(items)]

\* lines 240-243: the iterator after a page was fetched and stored.
after_page(iter, key, items) ==
    [iter EXCEPT !.key = key, !.buffer = pop_front(items),
                 !.offset = iter.offset + 1]

\* insert_tracks with the position counted from one: each track is stored
\* under the key of the index after its own.
RECURSIVE insert_tracks_shifted(_, _, _, _, _)
insert_tracks_shifted(tree, key, offset, items, count) ==
    IF count = 0
    THEN tree
    ELSE tree_insert(insert_tracks_shifted(tree, key, offset, items, count - 1),
                     update_key(key, offset + count),
                     to_writer(items[count]))

\* lines 230-239: the tree after the first count tracks of the page were
\* inserted, each under the key of offset + its position.
RECURSIVE insert_tracks(_, _, _, _, _)
insert_tracks(tree, key, offset, items, count) ==
    IF count = 0
    THEN tree
    ELSE tree_insert(insert_tracks(tree, key, offset, items, count - 1),
                     update_key(key, offset + count - 1),
                     to_writer(items[count]))

\* The key buffer after the loop of lines 230-239 called update_key for the
\* first count tracks of the page.
key_after(key, offset, count) ==
    IF count = 0 THEN key ELSE update_key(key, offset + count - 1)

\* The whole pull: [res, track, err, it, tracks, calls, readErr, saw, path].
next(fault) ==
    LET key == update_key(it.key, it.offset)
        entry == tree_get(tracks, key)
        saw == Holds(entry, IF entry.some THEN from_reader(entry.val) ELSE None)
        cached == cache_read(fault.read, entry)
        request == Request(it.offset)
        next_page == user_playlist_tracks(collection, request)
        n == Len(next_page.items)
        failing == fault.down \in {"cbor", "insert"} /\ fault.at <= n
        \* tracks inserted, and update_key calls made, before the loop ends
        inserted == IF failing THEN fault.at - 1 ELSE n
        keyed == IF failing /\ fault.down = "cbor" THEN fault.at - 1
                 ELSE IF failing THEN fault.at ELSE n
        Out(res, track, err, iter, tree, calls, path) ==
            [res |-> res, track |-> track, err |-> err, it |-> iter,
             tracks |-> tree, calls |-> calls, readErr |-> fault.read,
             saw |-> saw, path |-> path]
    IN  IF exhausted(it)
        THEN [res |-> "None", track |-> NoTrack, err |-> "-", it |-> it,
              tracks |-> tracks, calls |-> <<>>, readErr |-> FALSE,
              saw |-> "-", path |-> "end"]
        ELSE IF cached.some
        THEN Out("Ok", cached.val, "-", after_hit(it, key), tracks, <<>>,
                 "cache")
        ELSE IF it.buffer # <<>>
        THEN Out("Ok", Head(it.buffer), "-", after_buffer(it, key), tracks,
                 <<>>, "buffer")
        ELSE IF fault.down = "remote"
        THEN Out("Err", NoTrack, "Failure", after_upstream_failure(it, key),
                 tracks, <<request>>, "remote")
        ELSE IF failing
        THEN Out("Err", NoTrack,
                 IF fault.down = "cbor" THEN "Cbor" ELSE "Sled/insert",
                 after_write_failure(it, key_after(key, it.offset, keyed),
                                     next_page.items),
                 insert_tracks(tracks, key, it.offset, next_page.items, inserted),
                 <<request>>, "remote")
        ELSE Out(IF n = 0 THEN "None" ELSE "Ok",
                 IF n = 0 THEN NoTrack ELSE Head(next_page.items), "-",
                 after_page(it, key_after(key, it.offset, keyed), next_page.items),
                 insert_tracks(tracks, key, it.offset, next_page.items, inserted),
                 <<request>>, "remote")

\* A failure happens at a call the pull makes: the cache is read only when
\* the iterator is not exhausted, the remote request is made only after a
\* miss with an empty buffer, and a track is written only if the page has it.
pull_reaches(fault) ==
    LET key == update_key(it.key, it.offset)
        entry == tree_get(tracks, key)
        hit == cache_read(fault.read, entry).some
        remote == ~exhausted(it) /\ ~hit /\ it.buffer = <<>>
        n == Len(user_playlist_tracks(collection, Request(it.offset)).items)
    IN  /\ fault.read => ~exhausted(it)
        /\ fault.down # "none" => remote
        /\ fault.at <= n

Pull(fault) ==
    /\ it.live
    /\ pull_reaches(fault)
    /\ \E out \in {next(fault)} :
           /\ it' = out.it
           /\ tracks' = out.tracks
           /\ ret' = Ret("next", FALSE, out.res, out.track, out.err, out.calls,
                         out.readErr, out.saw, out.path)
           /\ trav' = [trav EXCEPT
                         !.yielded = IF out.res = "Ok"
                                     THEN Min(trav.yielded + 1, MaxTotal + 1)
                                     ELSE trav.yielded,
                         !.remote = trav.remote \/ out.calls # <<>>]
           /\ completed' = (completed \/ out.path = "end")
           /\ log' = Logged(log, out.calls,
                            IF out.res = "Ok" THEN <<out.path>> ELSE <<>>)
    /\ UNCHANGED <<collection, lengths, aside>>

----------------------------------------------------------------------------
(* The environment *)

\* The remote playlist changes: tracks are appended to it or removed from
\* its end.
RemoteChange ==
    /\ \E total \in (0..MaxTotal) \ {collection.total} :
         collection' = [total |-> total]
    /\ ret' = EnvRet
    /\ completed' = FALSE
    /\ UNCHANGED <<lengths, tracks, it, trav, log, aside>>

\* An entry of the items cache becomes unreadable (damage on disk, or a
\* payload written under another layout of the track type).
CorruptItem ==
    /\ \E key \in DOMAIN tracks :
         /\ tracks[key] # Junk
         /\ tracks' = [tracks EXCEPT ![key] = Junk]
    /\ ret' = EnvRet
    /\ UNCHANGED <<collection, lengths, it, trav, completed, log, aside>>

\* The cached length becomes a value that is not four bytes long.
CorruptLength ==
    /\ PlaylistId \in DOMAIN lengths
    /\ lengths[PlaylistId] # JunkLength
    /\ lengths' = [lengths EXCEPT ![PlaylistId] = JunkLength]
    /\ ret' = EnvRet
    /\ UNCHANGED <<collection, tracks, it, trav, completed, log, aside>>

---------------------------------------------------------------------------------------------------------------------------------------------------
(* Specifications *)

FetchAny == \E force \in BOOLEAN, fault \in FetchFaults : Fetch(force, fault)

PullAny == \E fault \in PullFaults : Pull(fault)

\* The calls when the store and the remote source do not fail.
FetchOk == \E force \in BOOLEAN : Fetch(force, "none")

PullOk == Pull(NoPullFault)

\* One playlist that does not change; the store and the remote source may
\* fail at every call, and cache entries may be damaged.
Next ==
    \/ FetchAny
    \/ PullAny
    \/ CorruptItem
    \/ CorruptLength

Spec == Init /\ [][Next]_vars

\* One playlist that does not change, no failures; cache entries may be
\* damaged.
NextStable ==
    \/ FetchOk
    \/ PullOk
    \/ CorruptItem
    \/ CorruptLength

SpecStable == Init /\ [][NextStable]_vars

\* A playlist that changes between and during traversals, no failures; cache
\* entries may be damaged.
NextDrift ==
    \/ FetchOk
    \/ PullOk
    \/ RemoteChange
    \/ CorruptItem
    \/ CorruptLength

SpecDrift == Init /\ [][NextDrift]_vars

\* One playlist that does not change, no failures, no damage.
NextReliable ==
    \/ FetchOk
    \/ PullOk

SpecReliable == Init /\ [][NextReliable]_vars

\* The first traversal over an empty store: one fetch() with force = false,
\* then pulls, no failures, no damage.
FirstFetch ==
    /\ ~it.live
    /\ Fetch(FALSE, "none")

NextFirst ==
    \/ FirstFetch
    \/ PullOk

SpecFirst == InitFirst /\ [][NextFirst]_vars

\* One playlist that does not change, with failures and damage as in Spec,
\* and a consumer that keeps pulling: it fetches again only when it holds no
\* iterator or the one it holds is exhausted, and of its pulls those in
\* which neither the remote request nor a write fails do not stay away for
\* ever (the read of the cache may fail in every pull).
FetchWhenDone ==
    /\ ~it.live \/ exhausted(it)
    /\ FetchAny

PullDelivering ==
    \E read \in BOOLEAN : Pull([read |-> read, down |-> "none", at |-> 0])

NextFair ==
    \/ FetchWhenDone
    \/ PullAny
    \/ CorruptItem
    \/ CorruptLength

SpecFair == Init /\ [][NextFair]_vars /\ WF_vars(PullDelivering)

\* Two iterators over the playlist on one store, the store calls and the
\* remote requests of their pulls interleaved; the playlist does not change
\* and nothing fails. A step is one call of playlist_tracks or one store
\* call or remote request of a next() with what follows it locally.

\* playlist_tracks for iterator i; the iterator it held is dropped.
RaceFetch(i, force) ==
    /\ race[i].pc = "idle"
    /\ \E out \in {playlist_tracks(force, "none")} :
          /\ lengths' = out.lengths
          /\ tracks' = out.tracks
          /\ race' = [race EXCEPT ![i] = Racer(out.it)]
    /\ UNCHANGED <<collection, it, ret, trav, completed, log, keys>>

\* lines 199-218: next() is called; the end test, the cache read, and the
\* yield from the cache or from the buffer.
RaceRead(i) ==
    LET r == race[i]
        key == update_key(r.it.key, r.it.offset)
        cached == cache_read(FALSE, tree_get(tracks, key))
    IN  /\ r.it.live
        /\ r.pc = "idle"
        /\ race' = [race EXCEPT ![i] =
              IF exhausted(r.it)
              THEN [r EXCEPT !.ended = TRUE]
              ELSE IF cached.some
              THEN [r EXCEPT !.it = after_hit(r.it, key),
                             !.yields = Append(r.yields, cached.val)]
              ELSE IF r.it.buffer # <<>>
              THEN [r EXCEPT !.it = after_buffer(r.it, key),
                             !.yields = Append(r.yields, Head(r.it.buffer))]
              ELSE [r EXCEPT !.it.key = key, !.pc = "request"]]
        /\ UNCHANGED <<collection, lengths, tracks, it, ret, trav, completed,
                       log, keys>>

\* lines 219-229: the remote request at the offset.
RaceRequest(i) ==
    LET r == race[i]
        next_page == user_playlist_tracks(collection, Request(r.it.offset))
    IN  /\ r.pc = "request"
        /\ race' = [race EXCEPT ![i] =
              [r EXCEPT !.page = next_page.items, !.pos = 0, !.pc = "insert"]]
        /\ UNCHANGED <<collection, lengths, tracks, it, ret, trav, completed,
                       log, keys>>

\* lines 230-239, one turn of the loop: a track of the page is serialized
\* and inserted under the key of its index.
RaceInsert(i) ==
    LET r == race[i]
        key == update_key(r.it.key, r.it.offset + r.pos)
    IN  /\ r.pc = "insert"
        /\ r.pos < Len(r.page)
        /\ tracks' = tree_insert(tracks, key, to_writer(r.page[r.pos + 1]))
        /\ race' = [race EXCEPT ![i] =
              [r EXCEPT !.it.key = key, !.pos = r.pos + 1]]
        /\ UNCHANGED <<collection, lengths, it, ret, trav, completed, log,
                       keys>>

\* lines 240-243: the loop is over; the page becomes the buffer, its first
\* track is yielded (None when the page is empty).
RaceReturn(i) ==
    LET r == race[i]
    IN  /\ r.pc = "insert"
        /\ r.pos = Len(r.page)
        /\ race' = [race EXCEPT ![i] =
              [r EXCEPT !.it = after_page(r.it, r.it.key, r.page),
                        !.yields = IF r.page = <<>> THEN r.yields
                                   ELSE Append(r.yields, Head(r.page)),
                        !.ended = (r.ended \/ r.page = <<>>),
                        !.page = <<>>, !.pos = 0, !.pc = "idle"]]
        /\ UNCHANGED <<collection, lengths, tracks, it, ret, trav, completed,
                       log, keys>>

NextRace ==
    \/ \E i \in Iterators, force \in BOOLEAN : RaceFetch(i, force)
    \/ \E i \in Iterators : RaceRead(i)
    \/ \E i \in Iterators : RaceRequest(i)
    \/ \E i \in Iterators : RaceInsert(i)
    \/ \E i \in Iterators : RaceReturn(i)

SpecRace == Init /\ [][NextRace]_vars

\* The key buffer of one iterator, updated for offsets of the whole 32-bit
\* range: 16-bit halves at and around the byte and sign boundaries.
Halves == {0, 1, 255, 256, 32767, 32768, 65535}

\* PlaylistTracks::update_key for the offset w, the key built before kept.
UpdateKey(w) ==
    /\ keys' = [offset |-> w,
                key |-> copy_from_slice(keys.key, to_be_bytes_u32(w)),
                before |-> [offset |-> keys.offset, key |-> keys.key]]
    /\ UNCHANGED <<collection, lengths, tracks, it, ret, trav, completed, log,
                   race>>

NextKeys == \E hi \in Halves, lo \in Halves : UpdateKey(U32(hi, lo))

InitKeys ==
    /\ keys = NoKeys
    /\ race = NoRace
    /\ collection = [total |-> 0]
    /\ lengths = EmptyTree
    /\ tracks = EmptyTree
    /\ it = NoIterator
    /\ ret = NoRet
    /\ trav = NoTrav
    /\ completed = FALSE
    /\ log = NoLog

SpecKeys == InitKeys /\ [][NextKeys]_vars

----------------------------------------------------------------------------
(* The vocabulary of the claims *)

\* The 4-byte big-endian encoding of n, and the number four bytes encode.
BigEndian4(n) ==
    << (n \div 16777216) % 256, (n \div 65536) % 256, (n \div 256) % 256,
       n % 256 >>

FromBigEndian4(b) == ((b[1] * 256 + b[2]) * 256 + b[3]) * 256 + b[4]

\* CompositeKey of the specification: id bytes, then the 4-byte big-endian
\* index.
CompositeKey(i) == PlaylistId \o BigEndian4(i)

\* The first page of the playlist: its first SEARCH_LIMIT tracks, or all of
\* them if it has fewer.
FirstPage ==
    [k \in 1..(IF collection.total < SEARCH_LIMIT
               THEN collection.total ELSE SEARCH_LIMIT) |-> [idx |-> k - 1]]

\* The items cache holds a deserializable entry for index i.
CachedValid(tree, i) ==
    /\ CompositeKey(i) \in DOMAIN tree
    /\ \E j \in 0..MaxTotal : tree[CompositeKey(i)] = <<161, j>>

\* The items cache holds an entry for index i that does not deserialize.
CachedCorrupt(tree, i) ==
    /\ CompositeKey(i) \in DOMAIN tree
    /\ ~CachedValid(tree, i)

\* A cached length exists: the length namespace holds a 4-byte value.
HasCachedLength(tree) ==
    /\ PlaylistId \in DOMAIN tree
    /\ Len(tree[PlaylistId]) = 4

\* The cached length.
CachedLength(tree) == FromBigEndian4(tree[PlaylistId])

\* The step is a call of the program (not a change of its environment).
IsFetch == ret'.op = "fetch"

IsPull == it.live /\ ret'.op = "next"

IsCall == ret'.op \in {"fetch", "next"}

\* The errors a pull returns for its remote request and for its writes.
DownstreamErrors == {"Failure", "Cbor", "Sled/insert"}

----------------------------------------------------------------------------
(* Claims *)

\* C1 (SpecStable: an unchanged playlist of total T, no store or upstream
\* failure): every pull yields a track until the traversal ends, it ends only
\* when T tracks were yielded, and every pull after that yields nothing.
C1_Exhaustion ==
    /\ [](it.live =>
            /\ trav.yielded <= collection.total
            /\ (ret.op = "next" => ret.res \in {"Ok", "None"})
            /\ (ret.op = "next" /\ ret.res = "None"
                  => trav.yielded = collection.total)
            /\ (exhausted(it) => trav.yielded = collection.total))
    /\ [][IsPull /\ ~exhausted(it)
            => ret'.res = "Ok" /\ trav'.yielded = trav.yielded + 1]_vars
    /\ [][IsPull /\ exhausted(it)
            => ret'.res = "None" /\ trav'.yielded = trav.yielded]_vars

\* A traversal of a playlist of several pages has yielded every track and
\* ended.
C1_Witness ==
    /\ it.live
    /\ collection.total = MaxTotal
    /\ trav.yielded = MaxTotal
    /\ ret.op = "next"
    /\ ret.res = "None"

C3_EagerFetch ==
    [][IsFetch /\ (ret'.force \/ ~HasCachedLength(lengths))
         => /\ ret'.calls = <<[offset |-> 0, limit |-> SEARCH_LIMIT]>>
            /\ ret'.res = "Iter"
            /\ DOMAIN lengths' = {PlaylistId}
            /\ lengths'[PlaylistId] = BigEndian4(collection.total)
            /\ it'.live
            /\ it'.total = collection.total
            /\ it'.offset = 0
            /\ it'.buffer = FirstPage]_vars

\* A forced fetch replaced a cached length that was no longer the playlist's
\* total, and seeded the buffer.
C3_Witness ==
    /\ ret.op = "fetch"
    /\ ret.force
    /\ ret.saw = "stale"
    /\ ret.res = "Iter"
    /\ it.buffer # <<>>
    /\ CachedLength(lengths) = collection.total

\* C4 (SpecDrift: no store or upstream failure): fetch() with force = false
\* and a cached length L issues no remote request, writes nothing to the
\* store, and returns an iterator with total = L, offset = 0 and an empty
\* lookahead buffer.
C4_LazyFetch ==
    [][IsFetch /\ ~ret'.force /\ HasCachedLength(lengths)
         => /\ ret'.calls = <<>>
            /\ ret'.res = "Iter"
            /\ lengths' = lengths
            /\ tracks' = tracks
            /\ it'.live
            /\ it'.total = CachedLength(lengths)
            /\ it'.offset = 0
            /\ it'.buffer = <<>>]_vars

\* An unforced fetch went by a cached length that is not the playlist's
\* total any more.
C4_Witness ==
    /\ ret.op = "fetch"
    /\ ~ret.force
    /\ ret.saw = "stale"
    /\ ret.res = "Iter"
    /\ it.total # collection.total
    /\ it.total = CachedLength(lengths)

\* C5 (SpecReliable: an unchanged playlist, no failure, no damage): a
\* traversal begun by fetch() with force = false after a complete traversal
\* has ended issues no remote request.
C5_ReplayWithoutRemote ==
    it.live /\ trav.replay => ~trav.remote

C7_LengthMutator ==
    [][IsCall /\ HasCachedLength(lengths)
         => /\ HasCachedLength(lengths')
            /\ lengths' # lengths => ret'.op = "fetch" /\ ret'.force]_vars

\* Pulls yielded tracks while the cached length was not the playlist's total,
\* and left it so.
C7_Witness ==
    /\ it.live
    /\ ret.op = "next"
    /\ ret.res = "Ok"
    /\ HasCachedLength(lengths)
    /\ CachedLength(lengths) # collection.total
    /\ it.total = CachedLength(lengths)

\* C8 (Spec): a pull at offset i that reads an entry for index i whose bytes
\* do not deserialize returns no error for it: with a non-empty lookahead
\* buffer it yields the buffer's front, the track of index i, without a
\* remote request; otherwise it requests the page at offset i and yields the
\* track of index i, unless that request or a write of the page fails.
C8_CorruptEntry ==
    [][IsPull /\ ~exhausted(it) /\ ~ret'.readErr
              /\ CachedCorrupt(tracks, it.offset)
         => IF it.buffer # <<>>
            THEN /\ ret'.path = "buffer"
                 /\ ret'.res = "Ok"
                 /\ ret'.track = Head(it.buffer)
                 /\ ret'.track = [idx |-> it.offset]
                 /\ ret'.calls = <<>>
            ELSE /\ ret'.path = "remote"
                 /\ ret'.calls = <<[offset |-> it.offset,
                                    limit |-> SEARCH_LIMIT]>>
                 /\ \/ ret'.res = "Ok" /\ ret'.track = [idx |-> it.offset]
                    \/ ret'.res = "Err" /\ ret'.err \in DownstreamErrors]_vars

\* A pull found a corrupt entry and yielded the track from the lookahead
\* buffer.
C8_Witness ==
    /\ it.live
    /\ ret.op = "next"
    /\ ret.saw = "corrupt"
    /\ ~ret.readErr
    /\ ret.path = "buffer"
    /\ ret.res = "Ok"

\* C9, as claimed (Spec): a call in which a cache read failed returns no
\* error on that account: the error it returns, if any, is that of its
\* remote request or of a write.
C9_ReadFailureNeverReturned ==
    ret.readErr => ret.err \in {"-"} \cup DownstreamErrors

\* C9, amended (Spec): a pull whose read of the items cache fails returns no
\* error on that account and goes on as after a miss, through the lookahead
\* buffer or the remote request, for the same index; a fetch() whose read of
\* the cached length fails returns that failure as an error, having issued
\* no remote request.
C9_ReadFailure ==
    /\ (it.live /\ ret.op = "next" /\ ret.readErr
          => /\ ret.path \in {"buffer", "remote"}
             /\ ret.err \in {"-"} \cup DownstreamErrors
             /\ ret.path = "buffer" => ret.res = "Ok" /\ ret.calls = <<>>
             /\ ret.path = "remote" => Len(ret.calls) = 1
             /\ ret.res = "Ok" => ret.track = [idx |-> it.offset - 1])
    /\ (ret.op = "fetch" /\ ret.readErr
          => /\ ret.res = "Err"
             /\ ret.err = "Sled/get"
             /\ ret.calls = <<>>)

\* The read of a deserializable entry failed and the pull yielded the track
\* from the page it then requested.
C9_Witness ==
    /\ it.live
    /\ ret.op = "next"
    /\ ret.readErr
    /\ ret.saw = "valid"
    /\ ret.path = "remote"
    /\ ret.res = "Ok"

\* C10 (Spec): a pull whose remote request fails has made exactly one remote
\* request, at its offset, returns an error, and leaves offset, total, the
\* lookahead buffer and both cache namespaces as they were: the iterator is
\* still Active at the same offset.
C10_UpstreamFailure ==
    [][IsPull /\ ret'.err = "Failure"
         => /\ ret'.res = "Err"
            /\ ret'.calls = <<[offset |-> it.offset, limit |-> SEARCH_LIMIT]>>
            /\ it'.offset = it.offset
            /\ it'.total = it.total
            /\ it'.buffer = it.buffer
            /\ it'.offset < it'.total
            /\ tracks' = tracks
            /\ lengths' = lengths]_vars

\* The remote request of a pull in the middle of a traversal failed.
C10_Witness ==
    /\ it.live
    /\ ret.op = "next"
    /\ ret.err = "Failure"
    /\ it.offset > 0
    /\ it.offset < it.total

\* The errors a pull returns when the serialization or the insertion of a
\* track of the page fails.
WriteErrors == {"Cbor", "Sled/insert"}

\* The tree `after` is the tree `before` with the entries of the indices
\* from..(from + count - 1) written, each holding the track of its index.
WrittenPrefix(before, after, from, count) ==
    LET written == {CompositeKey(from + r) : r \in 0..(count - 1)}
    IN  /\ DOMAIN after = DOMAIN before \cup written
        /\ \A r \in 0..(count - 1) :
              after[CompositeKey(from + r)] = <<161, from + r>>
        /\ \A key \in DOMAIN before \ written : after[key] = before[key]

\* C11 (Spec): a pull in which the serialization or the insertion of a track
\* of the fetched page fails returns an error, has written only the tracks of
\* the page before the failing one, and leaves offset, total, the lookahead
\* buffer (empty) and the cached length as they were; the next pull on that
\* iterator, when it returns no error, yields the track of that same offset.
C11_WriteFailure ==
    /\ [][IsPull /\ ret'.err \in WriteErrors
            => /\ ret'.res = "Err"
               /\ ret'.calls = <<[offset |-> it.offset, limit |-> SEARCH_LIMIT]>>
               /\ it'.offset = it.offset
               /\ it'.total = it.total
               /\ it'.buffer = it.buffer
               /\ it'.offset < it'.total
               /\ lengths' = lengths
               /\ \E count \in 0..(SEARCH_LIMIT - 1) :
                     /\ it.offset + count < collection.total
                     /\ WrittenPrefix(tracks, tracks', it.offset, count)]_vars
    /\ [][IsPull /\ ret.op = "next" /\ ret.err \in WriteErrors
                 /\ ret'.err = "-"
            => /\ ret'.res = "Ok"
               /\ ret'.track = [idx |-> it.offset]
               /\ it'.offset = it.offset + 1]_vars

\* The insertion of the second track of a page failed: the first track of
\* the page is in the cache, the second is not, and the iterator stands at
\* the first.
C11_Witness ==
    /\ it.live
    /\ ret.op = "next"
    /\ ret.err = "Sled/insert"
    /\ it.offset < it.total
    /\ it.buffer = <<>>
    /\ CachedValid(tracks, it.offset)
    /\ CompositeKey(it.offset + 1) \notin DOMAIN tracks
    /\ it.offset + 1 < collection.total

\* C12 (Spec): a fetch() whose remote request fails, or whose write of the
\* cached length fails, took the eager path (force = true or no cached
\* length), issued one remote request at offset 0, returns an error and no
\* iterator, and leaves the cached length and the items cache as they were.
C12_EagerFailure ==
    [][IsFetch /\ ret'.err \in {"Failure", "Sled/insert"}
         => /\ ret'.force \/ ~HasCachedLength(lengths)
            /\ ret'.calls = <<[offset |-> 0, limit |-> SEARCH_LIMIT]>>
            /\ ret'.res = "Err"
            /\ it' = it
            /\ lengths' = lengths
            /\ tracks' = tracks]_vars

\* A forced fetch failed on the write of the length while the tree held no
\* readable length and the items cache held tracks: nothing was stored.
C12_Witness ==
    /\ ret.op = "fetch"
    /\ ret.force
    /\ ret.res = "Err"
    /\ ret.err = "Sled/insert"
    /\ collection.total > 0
    /\ ~HasCachedLength(lengths)
    /\ tracks # EmptyTree

\* The indices i of lo..(hi - 1) under which the tree holds the track of
\* index i, and no other entry.
HoldsExactly(tree, lo, hi) ==
    /\ DOMAIN tree = {CompositeKey(i) : i \in lo..(hi - 1)}
    /\ \A i \in lo..(hi - 1) : tree[CompositeKey(i)] = <<161, i>>

\* The requests at the offsets 0, SEARCH_LIMIT, 2 * SEARCH_LIMIT, ... that
\* are below bound (the request at offset 0 in any case).
PageRequests(bound) ==
    [k \in 1..(IF bound <= 0 THEN 1 ELSE ((bound - 1) \div SEARCH_LIMIT) + 1)
       |-> [offset |-> (k - 1) * SEARCH_LIMIT, limit |-> SEARCH_LIMIT]]

\* C13 (SpecFirst: an empty store, a playlist of total T, fetch() with
\* force = false, then pulls, no failures): the remote requests issued up to
\* a state are those at the offsets 0, P, 2P, ... below the iterator's offset
\* (P = SEARCH_LIMIT), so that the traversal, when it has ended, has issued
\* exactly the requests at 0, P, 2P, ... below T (one request, at 0, when
\* T <= P); the first min(P, T) yields come from the lookahead buffer, and
\* the items cache is empty until they are done; at the end the items cache
\* holds exactly the indices of [P, T) and the cached length is T.
C13_FirstTraversal ==
    it.live =>
      /\ it.total = collection.total
      /\ log.requests = PageRequests(it.offset)
      /\ Len(log.paths) = it.offset
      /\ \A k \in 1..Len(log.paths) :
            log.paths[k] = IF k <= SEARCH_LIMIT THEN "buffer"
                           ELSE IF (k - 1) % SEARCH_LIMIT = 0 THEN "remote"
                           ELSE "cache"
      /\ it.offset <= SEARCH_LIMIT => tracks = EmptyTree
      /\ lengths = [k \in {PlaylistId} |-> BigEndian4(collection.total)]
      /\ (ret.op = "next" /\ ret.res = "None")
            => /\ it.offset = collection.total
               /\ log.requests = PageRequests(collection.total)
               /\ HoldsExactly(tracks, SEARCH_LIMIT, collection.total)

\* The traversal of a playlist of more than two pages, the last one partial,
\* has ended: three or more requests were issued.
C13_Witness ==
    /\ it.live
    /\ ret.op = "next"
    /\ ret.res = "None"
    /\ collection.total > 2 * SEARCH_LIMIT
    /\ collection.total % SEARCH_LIMIT # 0
    /\ Len(log.requests) >= 3
    /\ Len(log.paths) = collection.total

\* The order of the integers on 32-bit numbers given by their halves.
U32Less(v, w) == v.hi < w.hi \/ (v.hi = w.hi /\ v.lo < w.lo)

\* C14 (SpecKeys: one key buffer, updated for offsets of the whole 32-bit
\* range): every key built is the id bytes followed by the 4-byte big-endian
\* offset (the encoding the iterator uses for its offsets), and of two keys
\* built for the offsets i < j the key of i is strictly smaller than the key
\* of j in byte-lexicographic order.
C14_KeyOrdering ==
    /\ keys.key = PlaylistId \o to_be_bytes_u32(keys.offset)
    /\ keys.offset.hi < 32768
         => keys.key = update_key(keys.before.key,
                                  keys.offset.hi * 65536 + keys.offset.lo)
    /\ U32Less(keys.before.offset, keys.offset)
         => /\ lex_less(keys.before.key, keys.key)
            /\ ~lex_less(keys.key, keys.before.key)
    /\ U32Less(keys.offset, keys.before.offset)
         => /\ lex_less(keys.key, keys.before.key)
            /\ ~lex_less(keys.before.key, keys.key)

\* The key of 2^31 - 1 was built, then the key of 2^31: every byte but the
\* first became smaller.
C14_Witness ==
    /\ keys.before.offset = U32(32767, 65535)
    /\ keys.offset = U32(32768, 0)
    /\ keys.before.key = PlaylistId \o <<127, 255, 255, 255>>
    /\ keys.key = PlaylistId \o <<128, 0, 0, 0>>
    /\ lex_less(keys.before.key, keys.key)

\* C15 (Spec): no fetch() writes to the items cache: with a cached length to
\* go by, on the eager path, forced, or failing, the items namespace after
\* the call is the items namespace before it; a fetch() that took the eager
\* path returns the first page in the iterator's lookahead buffer only.
C15_FetchLeavesItems ==
    [][IsFetch
         => /\ tracks' = tracks
            /\ (ret'.res = "Iter" /\ ret'.calls # <<>>)
                  => /\ it'.buffer = FirstPage
                     /\ \A i \in 0..(Len(FirstPage) - 1) :
                           /\ CompositeKey(i) \in DOMAIN tracks'
                                => CompositeKey(i) \in DOMAIN tracks
                           /\ CompositeKey(i) \in DOMAIN tracks
                                => tracks'[CompositeKey(i)]
                                     = tracks[CompositeKey(i)]]_vars

\* A forced fetch took the first page while the items cache held a damaged
\* entry for its first track and none for its second: the page is in the
\* buffer, the cache is as it was.
C15_Witness ==
    /\ ret.op = "fetch"
    /\ ret.force
    /\ ret.res = "Iter"
    /\ Len(it.buffer) = SEARCH_LIMIT
    /\ CachedCorrupt(tracks, 0)
    /\ CompositeKey(1) \notin DOMAIN tracks

\* The page the remote source returns for a request at offset.
ReturnedItems(offset) ==
    user_playlist_tracks(collection, Request(offset)).items

\* C16 (SpecDrift: no store or upstream failure, so the remote request and
\* every write of a pull succeed): a pull of an Active iterator that finds
\* no deserializable entry for its offset and an empty lookahead buffer
\* requests the page at its offset; afterwards the items cache holds the
\* returned item of each relative position r under index offset + r, the
\* buffer is the returned items without the first, the offset has grown by
\* one, and the pull yields the first returned item: it does not end the
\* sequence.
C16_PageStoredAndYielded ==
    [][IsPull /\ ~exhausted(it) /\ ~CachedValid(tracks, it.offset)
              /\ it.buffer = <<>>
         => LET page == ReturnedItems(it.offset)
            IN  /\ ret'.calls = <<[offset |-> it.offset,
                                   limit |-> SEARCH_LIMIT]>>
                /\ \A r \in 0..(Len(page) - 1) :
                      /\ CompositeKey(it.offset + r) \in DOMAIN tracks'
                      /\ tracks'[CompositeKey(it.offset + r)]
                           = <<161, page[r + 1].idx>>
                /\ it'.offset = it.offset + 1
                /\ ret'.res = "Ok"
                /\ page # <<>>
                /\ ret'.track = page[1]
                /\ it'.buffer = [k \in 1..(Len(page) - 1) |-> page[k + 1]]]_vars

\* C17 (Spec: an unchanged playlist; the store and the remote source may
\* fail at every call, entries may become undeserializable, and every
\* deserializable entry was written by a pull): the k-th successful yield of
\* a traversal, k counted from 0, is the playlist's track of index k, by
\* whichever of the cache, the lookahead buffer and the remote page it comes
\* and whatever failed before it.
C17_YieldsInOrder ==
    /\ [](it.live => it.offset = trav.yielded /\ it.total = collection.total)
    /\ [][IsPull /\ ret'.res = "Ok"
            => /\ trav.yielded < collection.total
               /\ ret'.track = [idx |-> trav.yielded]
               /\ ret'.path \in {"cache", "buffer", "remote"}
               /\ trav'.yielded = trav.yielded + 1]_vars
    /\ [][IsPull /\ ret'.res # "Ok" => trav'.yielded = trav.yielded]_vars

\* The last track of a playlist of several pages was yielded from the page
\* requested after the read of its cache entry had failed.
C17_Witness ==
    /\ it.live
    /\ ret.op = "next"
    /\ ret.res = "Ok"
    /\ ret.readErr
    /\ ret.saw = "valid"
    /\ ret.path = "remote"
    /\ collection.total = MaxTotal
    /\ trav.yielded = MaxTotal
    /\ ret.track = [idx |-> MaxTotal - 1]

\* C18 (Spec: one iterator, an unchanged playlist, failures and damaged
\* entries allowed): the lookahead buffer holds the playlist's tracks of the
\* indices offset, offset + 1, ..., offset + len - 1, in order, none past the
\* total; so the buffer entry a cache hit discards is the entry of the index
\* just read from the cache.
C18_BufferAligned ==
    /\ [](it.live =>
            /\ it.offset + Len(it.buffer) <= it.total
            /\ \A k \in 1..Len(it.buffer) :
                  it.buffer[k] = [idx |-> it.offset + k - 1])
    /\ [][IsPull /\ ret'.path = "cache" /\ it.buffer # <<>>
            => /\ Head(it.buffer) = [idx |-> it.offset]
               /\ Head(it.buffer) = ret'.track
               /\ it'.buffer = Tail(it.buffer)]_vars

\* A cache hit at index 0 discarded the buffer's entry of index 0; the
\* buffer goes on with index 1.
C18_Witness ==
    /\ it.live
    /\ ret.op = "next"
    /\ ret.path = "cache"
    /\ ret.track = [idx |-> 0]
    /\ it.offset = 1
    /\ it.buffer = <<[idx |-> 1]>>

\* C19 (SpecFair: the consumer keeps pulling, and the pulls in which neither
\* the remote request nor a write fails do not stay away for ever): every
\* iterator reaches Exhausted, offset >= total.
C19_ReachesExhausted == it.live ~> (it.live /\ exhausted(it))

\* An iterator over a playlist of several pages is exhausted, its last pull
\* having failed on a write and its cache holding a damaged entry.
C19_Witness ==
    /\ it.live
    /\ exhausted(it)
    /\ it.total = MaxTotal
    /\ ret.op = "next"
    /\ ret.res = "Ok"
    /\ ret.path = "remote"
    /\ ret.saw = "corrupt"

\* C20 (SpecRace: two iterators over the playlist on one store, their pulls
\* and the store calls inside them interleaved, an unchanged playlist, no
\* failures): each iterator has yielded the tracks of the indices 0, 1, ...
\* up to its offset, in order; its sequence ends only when it has yielded
\* `total` tracks, the playlist's total; and every entry of the items cache
\* holds, under the key of an index of the playlist, the track of that index.
C20_TwoIterators ==
    /\ \A i \in Iterators :
          race[i].it.live =>
            /\ race[i].it.total = collection.total
            /\ race[i].it.offset <= race[i].it.total
            /\ race[i].yields
                 = [k \in 1..race[i].it.offset |-> [idx |-> k - 1]]
            /\ race[i].ended => Len(race[i].yields) = collection.total
    /\ \A key \in DOMAIN tracks :
          \E idx \in 0..(collection.total - 1) :
             /\ key = CompositeKey(idx)
             /\ tracks[key] = <<161, idx>>

\* Both iterators are in the loop that stores a page, for the same offset,
\* each with tracks already inserted and tracks still to insert: they write
\* the same keys in turn.
C20_Witness ==
    /\ race[1].pc = "insert"
    /\ race[2].pc = "insert"
    /\ race[1].it.offset = race[2].it.offset
    /\ race[1].pos = 1
    /\ race[2].pos = 1
    /\ Len(race[1].page) = SEARCH_LIMIT
    /\ Len(race[2].page) = SEARCH_LIMIT

====
